---- MODULE Spec2Model ----
(***************************************************************************)
(* Model of app.py: the Streamlit review session of the human-verified     *)
(* content curation agent.  The session state (plan_run, curated,          *)
(* outstanding_clarifications) is driven by two UI events, "Curate         *)
(* Content" and "Submit Review".  The orchestration engine (portia), the   *)
(* network probes and the local model runtime are external: their answers  *)
(* are inputs chosen with \E at every call site.                           *)
(***************************************************************************)
EXTENDS Integers, Sequences, FiniteSets, TLC

\* ---------------------------------------------------------------- bounds
NumArticles == 2      \* articles the article source can return
MaxRuns     == 2      \* plan runs the engine hands out
MaxCurated  == 2      \* review submissions stop once curated is this long

\* ------------------------------------------------------------- data model
Titles == <<"A", "B", "C", "D">>
Urls   == <<"u1", "u2", "u3", "u4">>

\* one element of data.get('articles', []) returned by NewsFetchTool.run
Article(i) == [title |-> Titles[i], description |-> "d", url |-> Urls[i]]

NoArticle == [title |-> "", description |-> "", url |-> ""]

\* ContentReviewClarification.options
Options == {"approve", "reject", "edit"}

\* text typed into the "Edited Description" field
EditedTexts == {"better d"}

\* the keyword text input: empty, or some text
KeywordInputs == {"", "AI"}

\* ContentReviewClarification(content, reason); plan_run_id is the run that raised it
ContentReviewClarification(content, id) ==
  [content |-> content, reason |-> "low sentiment", plan_run_id |-> id]

NoClar == ContentReviewClarification(NoArticle, 0)

\* st.session_state.plan_run = None
NonePlanRun ==
  [id |-> 0, state |-> "None", open |-> <<>>, later |-> <<>>, passed |-> <<>>]

RECURSIVE SetToSeq(_)
\* the members of a set of article numbers, in the order the source returns them
SetToSeq(S) ==
  IF S = {} THEN <<>>
  ELSE LET m == CHOOSE x \in S : \A y \in S : x <= y
       IN <<m>> \o SetToSeq(S \ {m})

\* the first k elements and the rest of a sequence
Take(s, k) == SubSeq(s, 1, k)
Drop(s, k) == SubSeq(s, k + 1, Len(s))

Clars(arts, id) == [i \in 1..Len(arts) |-> ContentReviewClarification(arts[i], id)]

\* ------------------------------------------------- the external engine
\* A plan run as the engine hands it back: its PlanRunState, the
\* clarifications it has raised and not yet seen resolved (open), the flagged
\* articles it has still to raise (later), and the articles that passed the
\* filter without being flagged (passed).
StartedRun(id, S, F, k) ==
  LET flagged == SetToSeq(F)
      ok      == SetToSeq(S \ F)
      arts    == [i \in 1..Len(flagged) |-> Article(flagged[i])]
  IN [id     |-> id,
      state  |-> IF F = {} THEN "COMPLETE" ELSE "NEED_CLARIFICATION",
      open   |-> Clars(Take(arts, k), id),
      later  |-> Drop(arts, k),
      passed |-> [i \in 1..Len(ok) |-> Article(ok[i])]]

FailedRun(id) ==
  [id |-> id, state |-> "FAILED", open |-> <<>>, later |-> <<>>, passed |-> <<>>]

\* what portia.run(task) can do: raise, hand back a failed run, or hand back
\* a run that fetched the articles S and flagged F of them, raising the first k
PortiaRun(id) ==
  {[raised |-> TRUE, run |-> NonePlanRun], [raised |-> FALSE, run |-> FailedRun(id)]}
  \cup UNION { UNION { { [raised |-> FALSE, run |-> StartedRun(id, S, F, k)] :
                           k \in (IF F = {} THEN {0} ELSE 1..Cardinality(F)) } :
                       F \in SUBSET S } :
               S \in SUBSET (1..NumArticles) }

\* plan_run.resolve_clarification(clar, action): raises, or hands back the run
\* with that clarification no longer open
ResolveClarification(run, clar) ==
  IF run = NonePlanRun
  THEN {[raised |-> TRUE, run |-> run]}
  ELSE {[raised |-> TRUE, run |-> run],
        [raised |-> FALSE,
         run |-> [run EXCEPT !.open = SelectSeq(run.open, LAMBDA c : c # clar)]]}

\* plan_run.resume(): raises, fails, pauses again on what is still open or on
\* the next k flagged articles, or completes
Resume(run) ==
  {[raised |-> TRUE, run |-> run],
   [raised |-> FALSE, run |-> [run EXCEPT !.state = "FAILED"]]}
  \cup (IF run.open # <<>>
        THEN {[raised |-> FALSE, run |-> [run EXCEPT !.state = "NEED_CLARIFICATION"]]}
        ELSE IF run.later # <<>>
        THEN {[raised |-> FALSE,
               run |-> [run EXCEPT !.state = "NEED_CLARIFICATION",
                                   !.open  = Clars(Take(run.later, k), run.id),
                                   !.later = Drop(run.later, k)]] :
                k \in 1..Len(run.later)}
        ELSE {[raised |-> FALSE, run |-> [run EXCEPT !.state = "COMPLETE"]]})

\* plan_run.get_outstanding_clarifications()
GetOutstandingClarifications(run) == run.open

\* plan_run.outputs.final_output.get('articles', []) of a run that did not pause
FinalOutputArticles(run) == run.passed

\* ----------------------------------------------------- preflight checks
\* the answers of the three probes: validate_api_key, validate_newsapi_key,
\* validate_ollama each return True or False
Health == [portia : BOOLEAN, news : BOOLEAN, ollama : BOOLEAN]

Call(name, ok) == [name |-> name, ok |-> ok]

\* variant: the local model runtime is never probed
Preflight_SkipOllama(portia_key, newsapi_key, h) ==
  IF portia_key = "" \/ newsapi_key = "" THEN [ok |-> FALSE, calls |-> <<>>]
  ELSE IF ~h.portia
  THEN [ok |-> FALSE, calls |-> <<Call("validate_api_key", FALSE)>>]
  ELSE IF ~h.news
  THEN [ok |-> FALSE, calls |-> <<Call("validate_api_key", TRUE),
                                  Call("validate_newsapi_key", FALSE)>>]
  ELSE [ok |-> TRUE, calls |-> <<Call("validate_api_key", TRUE),
                                 Call("validate_newsapi_key", TRUE)>>]

\* the checks of run_curation, in order, stopping at the first that fails;
\* a missing key raises before any probe is sent
Preflight(portia_key, newsapi_key, h) ==
  IF portia_key = "" THEN [ok |-> FALSE, calls |-> <<>>]
  ELSE IF newsapi_key = "" THEN [ok |-> FALSE, calls |-> <<>>]
  ELSE IF ~h.portia
  THEN [ok |-> FALSE, calls |-> <<Call("validate_api_key", FALSE)>>]
  ELSE IF ~h.news
  THEN [ok |-> FALSE, calls |-> <<Call("validate_api_key", TRUE),
                                  Call("validate_newsapi_key", FALSE)>>]
  ELSE IF ~h.ollama
  THEN [ok |-> FALSE, calls |-> <<Call("validate_api_key", TRUE),
                                  Call("validate_newsapi_key", TRUE),
                                  Call("validate_ollama", FALSE)>>]
  ELSE [ok |-> TRUE, calls |-> <<Call("validate_api_key", TRUE),
                                 Call("validate_newsapi_key", TRUE),
                                 Call("validate_ollama", TRUE)>>]

\* curated = final_output articles if state != NEED_CLARIFICATION else []
CuratedOf(run) ==
  IF run.state # "NEED_CLARIFICATION" THEN FinalOutputArticles(run) ELSE <<>>

\* run_curation(user_prefs): the preflight, then portia.run, then the curated
\* list; every exception leaves as a ValueError (raised = TRUE).  A run handed
\* back in state FAILED has no final output, so reading it raises too.
run_curation(portia_key, newsapi_key, h, eng) ==
  LET pre == Preflight(portia_key, newsapi_key, h)
  IN IF ~pre.ok
     THEN [raised |-> TRUE, calls |-> pre.calls,
           plan_run |-> NonePlanRun, curated |-> <<>>]
     ELSE LET calls == Append(pre.calls, Call("portia.run", ~eng.raised))
          IN IF eng.raised \/ eng.run.state = "FAILED"
             THEN [raised |-> TRUE, calls |-> calls,
                   plan_run |-> NonePlanRun, curated |-> <<>>]
             ELSE [raised |-> FALSE, calls |-> calls,
                   plan_run |-> eng.run, curated |-> CuratedOf(eng.run)]

\* ------------------------------------------------------------------ state
VARIABLES
  PORTIA_API_KEY,              \* os.getenv('PORTIA_API_KEY'), "" when absent
  NEWSAPI_KEY,                 \* os.getenv('NEWSAPI_KEY'), "" when absent
  plan_run,                    \* st.session_state.plan_run
  curated,                     \* st.session_state.curated
  outstanding_clarifications,  \* st.session_state.outstanding_clarifications
  runs,                        \* plan runs the engine has handed out so far
  lastEvent                    \* the UI event handled last and the calls it made

vars == <<PORTIA_API_KEY, NEWSAPI_KEY, plan_run, curated,
          outstanding_clarifications, runs, lastEvent>>

session == <<plan_run, curated, outstanding_clarifications>>

Event(kind, keywords, idx, action, edited_desc, clar, outcome, calls) ==
  [kind |-> kind, keywords |-> keywords, idx |-> idx, action |-> action,
   edited_desc |-> edited_desc, clar |-> clar, outcome |-> outcome,
   calls |-> calls]

Init ==
  /\ PORTIA_API_KEY \in {"", "pk"}
  /\ NEWSAPI_KEY \in {"", "nk"}
  /\ plan_run = NonePlanRun
  /\ curated = <<>>
  /\ outstanding_clarifications = <<>>
  /\ runs = 0
  /\ lastEvent = Event("none", "", 0, "", "", NoClar, "ok", <<>>)

\* ------------------------------------------------- "Curate Content" event
\* variant: the button alone triggers the request
Triggered_Always(keywords) == TRUE

\* if st.button("Curate Content") and keywords:
Triggered(keywords) == keywords # ""

\* variant: the new run's articles are added to the earlier curated list
CurateCommit_KeepCurated(sess, res) ==
  IF res.raised
  THEN sess
  ELSE [plan_run |-> res.plan_run,
        curated  |-> sess.curated \o res.curated,
        outstanding_clarifications |->
          IF res.plan_run.state = "NEED_CLARIFICATION"
          THEN GetOutstandingClarifications(res.plan_run) ELSE <<>>]

\* variant: a failed request clears the run handle
CurateCommit_ClearRun(sess, res) ==
  IF res.raised
  THEN [sess EXCEPT !.plan_run = NonePlanRun]
  ELSE [plan_run |-> res.plan_run,
        curated  |-> res.curated,
        outstanding_clarifications |->
          IF res.plan_run.state = "NEED_CLARIFICATION"
          THEN GetOutstandingClarifications(res.plan_run) ELSE <<>>]

\* the two assignments of the handler's try block; the except branch only
\* shows the error
CurateCommit(sess, res) ==
  IF res.raised
  THEN sess
  ELSE [plan_run |-> res.plan_run,
        curated  |-> res.curated,
        outstanding_clarifications |->
          IF res.plan_run.state = "NEED_CLARIFICATION"
          THEN GetOutstandingClarifications(res.plan_run) ELSE <<>>]

\* the handler applied to the outcome res of run_curation
CurateStep(keywords, res) ==
  LET sess == [plan_run |-> plan_run, curated |-> curated,
               outstanding_clarifications |-> outstanding_clarifications]
      new  == CurateCommit(sess, res)
      ran  == \E i \in 1..Len(res.calls) : res.calls[i] = Call("portia.run", TRUE)
  IN /\ plan_run' = new.plan_run
     /\ curated' = new.curated
     /\ outstanding_clarifications' = new.outstanding_clarifications
     /\ runs' = IF ran THEN runs + 1 ELSE runs
     /\ lastEvent' = Event("curate", keywords, 0, "", "", NoClar,
                           IF res.raised THEN "error" ELSE "ok", res.calls)

\* the engine is asked only when the preflight let the request through
CurateContent ==
  /\ runs < MaxRuns
  /\ \E keywords \in KeywordInputs :
       IF ~Triggered(keywords)
       THEN /\ UNCHANGED <<session, runs>>
            /\ lastEvent' = Event("curate", keywords, 0, "", "", NoClar,
                                  "ignored", <<>>)
       ELSE \E h \in Health :
              IF Preflight(PORTIA_API_KEY, NEWSAPI_KEY, h).ok
              THEN \E eng \in PortiaRun(runs + 1) :
                     CurateStep(keywords,
                                run_curation(PORTIA_API_KEY, NEWSAPI_KEY, h, eng))
              ELSE CurateStep(keywords,
                              run_curation(PORTIA_API_KEY, NEWSAPI_KEY, h,
                                           [raised |-> TRUE, run |-> NonePlanRun]))
  /\ UNCHANGED <<PORTIA_API_KEY, NEWSAPI_KEY>>

\* -------------------------------------------------- "Submit Review" event
\* variant: the last clarification of the list is taken
ClarAt_Last(outs, idx) == outs[Len(outs)]

\* for idx, clar in enumerate(outstanding_clarifications): the form submitted
ClarAt(outs, idx) == outs[idx]

\* variant: the description is replaced whatever the action
UpdatedContent_AlwaysReplace(clar, action, edited_desc) ==
  [clar.content EXCEPT !.description = edited_desc]

\* updated_content = clar.content.copy(); description replaced when editing
UpdatedContent(clar, action, edited_desc) ==
  IF action = "edit"
  THEN [clar.content EXCEPT !.description = edited_desc]
  ELSE clar.content

\* variant: the record is appended whatever the action
ShouldAppend_Always(action) == TRUE

\* if action != "reject": curated.append(updated_content)
ShouldAppend(action) == action # "reject"

SubmitReview ==
  /\ outstanding_clarifications # <<>>
  /\ Len(curated) < MaxCurated
  /\ \E idx \in 1..Len(outstanding_clarifications), action \in Options,
        text \in EditedTexts :
       LET clar == ClarAt(outstanding_clarifications, idx)
           edited_desc == IF action = "edit" THEN text ELSE ""
           cur == IF ShouldAppend(action)
                  THEN Append(curated, UpdatedContent(clar, action, edited_desc))
                  ELSE curated
       IN \E rc \in ResolveClarification(plan_run, clar) :
            IF rc.raised
            THEN /\ UNCHANGED session
                 /\ lastEvent' = Event("submit", "", idx, action, edited_desc, clar,
                                       "error",
                                       <<Call("resolve_clarification", FALSE)>>)
            ELSE \E rs \in Resume(rc.run) :
                   IF rs.raised
                   THEN /\ plan_run' = rc.run
                        /\ curated' = cur
                        /\ UNCHANGED outstanding_clarifications
                        /\ lastEvent' = Event("submit", "", idx, action,
                                              edited_desc, clar, "error",
                                              <<Call("resolve_clarification", TRUE),
                                                Call("resume", FALSE)>>)
                   ELSE /\ plan_run' = rs.run
                        /\ curated' = cur
                        /\ outstanding_clarifications' =
                             GetOutstandingClarifications(rs.run)
                        /\ lastEvent' = Event("submit", "", idx, action,
                                              edited_desc, clar, "ok",
                                              <<Call("resolve_clarification", TRUE),
                                                Call("resume", TRUE)>>)
  /\ UNCHANGED <<PORTIA_API_KEY, NEWSAPI_KEY, runs>>

Next == CurateContent \/ SubmitReview

Spec == Init /\ [][Next]_vars

\* ---------------------------------------------------------------- helpers
CallNames(calls) == {calls[i].name : i \in 1..Len(calls)}

IsPrefix(s, t) == Len(s) <= Len(t) /\ SubSeq(t, 1, Len(s)) = s

CuratedTitles == {curated[j].title : j \in 1..Len(curated)}

\* ----------------------------------------------------------------- claims

\* C1: in every curation request portia.run is called only after the three
\* preflight checks (orchestrator key, article-source key, local model
\* runtime) were each run and passed in that request, with both keys present;
\* a failed check or an absent key means portia.run is not called.
C1_RunOnlyAfterPreflight ==
  \A i \in 1..Len(lastEvent.calls) :
    lastEvent.calls[i].name = "portia.run" =>
      /\ PORTIA_API_KEY # "" /\ NEWSAPI_KEY # ""
      /\ i = 4
      /\ lastEvent.calls[1] = Call("validate_api_key", TRUE)
      /\ lastEvent.calls[2] = Call("validate_newsapi_key", TRUE)
      /\ lastEvent.calls[3] = Call("validate_ollama", TRUE)

C1_Witness ==
  /\ lastEvent.kind = "curate"
  /\ "portia.run" \in CallNames(lastEvent.calls)

\* C2: an event whose handling fails (a preflight check, the engine's start,
\* resolve_clarification or resume) leaves plan_run, curated and the
\* outstanding list exactly as they were before the event.
C2_FailureLeavesSession ==
  [][lastEvent'.outcome = "error" => UNCHANGED session]_vars

\* C3: every clarification in the outstanding list is about an article that
\* is not in the curated list.
C3_OutstandingNotCurated ==
  \A i \in 1..Len(outstanding_clarifications) :
    outstanding_clarifications[i].content.title \notin CuratedTitles

\* C4 (as stated): a decision is never submitted for a clarification while an
\* earlier one in the list is still outstanding, i.e. only the first
\* outstanding clarification can be submitted.
C4_InOrderOnly ==
  lastEvent.kind = "submit" => lastEvent.idx = 1

\* C4 (amended): each Submit Review resolves exactly one clarification, the
\* one at the submitted position of the outstanding list (any position),
\* appends at most one record, and on success that clarification is no longer
\* outstanding.
C4_OneAtATime ==
  [][lastEvent'.kind = "submit" =>
       /\ lastEvent'.idx \in 1..Len(outstanding_clarifications)
       /\ lastEvent'.clar = outstanding_clarifications[lastEvent'.idx]
       /\ Cardinality({i \in 1..Len(lastEvent'.calls) :
                         lastEvent'.calls[i].name = "resolve_clarification"}) = 1
       /\ Len(curated') <= Len(curated) + 1
       /\ lastEvent'.outcome = "ok" =>
            \A i \in 1..Len(outstanding_clarifications') :
              outstanding_clarifications'[i] # lastEvent'.clar]_vars

C4_Witness ==
  /\ lastEvent.kind = "submit"
  /\ lastEvent.idx = 2
  /\ lastEvent.outcome = "ok"
  /\ Len(outstanding_clarifications) = 1

\* C5: a clarification resolved with approve or edit appends exactly one
\* record at the end of curated; its description is the edited text for edit
\* and the original description for approve, its other fields the article's.
C5_ApproveEditAppendsOne ==
  [][(/\ lastEvent'.kind = "submit"
      /\ lastEvent'.outcome = "ok"
      /\ lastEvent'.action \in {"approve", "edit"}) =>
       LET c == outstanding_clarifications[lastEvent'.idx].content
       IN curated' = Append(curated,
            [title |-> c.title,
             url |-> c.url,
             description |-> IF lastEvent'.action = "edit"
                             THEN lastEvent'.edited_desc
                             ELSE c.description])]_vars

C5_Witness ==
  /\ lastEvent.kind = "submit"
  /\ lastEvent.outcome = "ok"
  /\ lastEvent.action = "edit"
  /\ curated # <<>>
  /\ curated[Len(curated)].description = "better d"
  /\ curated[Len(curated)].title = lastEvent.clar.content.title
  /\ lastEvent.clar.content.description = "d"

\* C6: a clarification resolved with reject leaves curated identical to what
\* it was before the submission.
C6_RejectKeepsCurated ==
  [][(/\ lastEvent'.kind = "submit"
      /\ lastEvent'.outcome = "ok"
      /\ lastEvent'.action = "reject") => curated' = curated]_vars

C6_Witness ==
  /\ lastEvent.kind = "submit"
  /\ lastEvent.outcome = "ok"
  /\ lastEvent.action = "reject"
  /\ curated # <<>>

\* C7 (as stated): after every Curate Content with non-empty keywords the
\* curated and outstanding lists hold nothing from before that request: a
\* request that got a run holds only that run's items, one that did not holds
\* none.
C7_ResetOnEveryRequest ==
  (lastEvent.kind = "curate" /\ lastEvent.keywords # "") =>
     IF lastEvent.outcome = "ok"
     THEN \A i \in 1..Len(outstanding_clarifications) :
            outstanding_clarifications[i].plan_run_id = plan_run.id
     ELSE curated = <<>> /\ outstanding_clarifications = <<>>

\* C7 (amended): a Curate Content that succeeds installs a new run handle and
\* replaces curated by that run's output (empty when it paused) and the
\* outstanding list by that run's clarifications; every other event, a failed
\* Curate Content included, leaves the earlier curated list as a prefix of
\* the later one.
C7_ResetOnSuccess ==
  [][IF lastEvent'.kind = "curate" /\ lastEvent'.outcome = "ok"
     THEN /\ runs' = runs + 1
          /\ plan_run'.id = runs'
          /\ curated' = IF plan_run'.state = "NEED_CLARIFICATION"
                        THEN <<>> ELSE plan_run'.passed
          /\ \A i \in 1..Len(outstanding_clarifications') :
               outstanding_clarifications'[i].plan_run_id = plan_run'.id
     ELSE IsPrefix(curated, curated')]_vars

C7_Witness ==
  /\ lastEvent.kind = "curate"
  /\ lastEvent.outcome = "ok"
  /\ plan_run.id = 2

\* C8: Curate Content with empty keywords runs no preflight check, makes no
\* call to the engine and leaves the session state unchanged.
C8_EmptyKeywordsDoNothing ==
  [][(lastEvent'.kind = "curate" /\ lastEvent'.keywords = "") =>
       /\ lastEvent'.calls = <<>>
       /\ UNCHANGED <<session, runs>>]_vars

C8_Witness ==
  /\ lastEvent.kind = "curate"
  /\ lastEvent.keywords = ""
  /\ PORTIA_API_KEY # "" /\ NEWSAPI_KEY # ""
  /\ plan_run # NonePlanRun

\* C9: when a run that paused for review completes, curated holds every
\* article that passed the filter unflagged (as well as the approved and
\* edited ones).
C9_DoneListComplete ==
  (/\ lastEvent.kind = "submit"
   /\ lastEvent.outcome = "ok"
   /\ plan_run.state = "COMPLETE"
   /\ outstanding_clarifications = <<>>) =>
     \A i \in 1..Len(plan_run.passed) : plan_run.passed[i].title \in CuratedTitles

\* C10: whenever the outstanding list is non-empty, plan_run is set and is the
\* run that raised every clarification in the list.
C10_OutstandingHasItsRun ==
  outstanding_clarifications # <<>> =>
    /\ plan_run # NonePlanRun
    /\ \A i \in 1..Len(outstanding_clarifications) :
         outstanding_clarifications[i].plan_run_id = plan_run.id

C10_Witness ==
  /\ outstanding_clarifications # <<>>
  /\ lastEvent.kind = "curate"
  /\ lastEvent.outcome = "error"

====
